---- MODULE Spec2Model ----
(***************************************************************************)
(* Model of examples/terrain/main.rs: the terrain example of gfx.          *)
(*                                                                         *)
(* App::new builds a noise-perturbed plane mesh once; App::render is       *)
(* called once per frame and records update_buffer / clear / clear_depth / *)
(* draw into the encoder.                                                  *)
(*                                                                         *)
(* Numbers.  f32 heights are kept in fixed point with denominator 64, so   *)
(* the literal 8.0 is 8 * 64 and perlin2(..) * 32.0 is exact.  Colours are *)
(* kept in tenths (0.9 is 9).  Angles are kept in units of pi/4 and sin /  *)
(* cos in thousandths.  Sample coordinates are exact fractions.            *)
(*                                                                         *)
(* Grid.  main.rs:94 fixes the resolution at Plane::subdivide(256, 256).   *)
(* The model keeps the resolution as the input of the mesh construction    *)
(* and draws it from 1..MaxGrid; 256 x 256 is one instance of it.          *)
(***************************************************************************)
EXTENDS Integers, Sequences, FiniteSets

VARIABLES
    phase,      \* "start" | "aborted" (App::new panicked) | "running" |
                \* "panicked" (App::render panicked)
    plane,      \* local `plane` of App::new (kept to state the mesh claims)
    seed,       \* local `rand_seed` of App::new
    pso,        \* App.pso
    data,       \* App.data (pipe::Data)
    slice,      \* App.slice: the index data bound to the mesh
    encoder,    \* the requests issued to the gfx::Encoder, oldest first
    times,      \* the values read from precise_time_s, one per render call,
                \* in units of pi/4
    returned    \* number of render calls that returned normally

vars == <<phase, plane, seed, pso, data, slice, encoder, times, returned>>

---------------------------------------------------------------------------
(* Bounds *)

MaxGrid == 4
MaxSeed == 2
MaxFrames == 2
MaxClock == 3

AspectRatios == {1, 2}

None == "none"

---------------------------------------------------------------------------
(* Fixed point *)

F(n) == n * 64

---------------------------------------------------------------------------
(* calculate_color, main.rs:57-67 *)

calculate_color_ge(height) ==
    IF height >= F(8) THEN <<9, 9, 9>>
    ELSE IF height >= F(0) THEN <<7, 7, 7>>
    ELSE IF height >= F(-5) THEN <<2, 7, 2>>
    ELSE <<2, 2, 7>>

calculate_color(height) ==
    IF height > F(8) THEN <<9, 9, 9>>
    ELSE IF height > F(0) THEN <<7, 7, 7>>
    ELSE IF height > F(-5) THEN <<2, 7, 2>>
    ELSE <<2, 2, 7>>

---------------------------------------------------------------------------
(* Noise provider (noise crate): a deterministic scalar in [-1, 1] per     *)
(* seed and coordinates, here in 1/64ths.  The samples are chosen so that  *)
(* perlin2 * 32.0 takes the values -32, -5.5, -5, -4.5, 0, 0.5, 8, 8.5, 32 *)

NoiseSamples == <<-64, -11, -10, -9, 0, 1, 16, 17, 64>>

perlin2(s, p) ==
    LET x == p[1]
        y == p[2]
        k == s + x.num + (x.den + 1) * y.num
    IN  NoiseSamples[(k % Len(NoiseSamples)) + 1]

---------------------------------------------------------------------------
(* Plane generator (genmesh crate) *)

Plane_subdivide(x, y) == [subdivide_x |-> x, subdivide_y |-> y]

\* sample point of lattice coordinate (x, y): (x / W, y / H)
Plane_vert(pl, x, y) ==
    << [num |-> x, den |-> pl.subdivide_x],
       [num |-> y, den |-> pl.subdivide_y] >>

shared_vertex_count(pl) == (pl.subdivide_x + 1) * (pl.subdivide_y + 1)

shared_vertex(pl, idx) ==
    LET y == idx \div (pl.subdivide_x + 1)
        x == idx % (pl.subdivide_x + 1)
    IN  Plane_vert(pl, x, y)

shared_vertex_iter(pl) ==
    [k \in 1..shared_vertex_count(pl) |-> shared_vertex(pl, k - 1)]

indexed_polygon_count(pl) == pl.subdivide_x * pl.subdivide_y

\* Quad of the cell idx, corners in winding order
indexed_polygon(pl, idx) ==
    LET y == idx \div pl.subdivide_x
        x == idx % pl.subdivide_x
        base == y * (pl.subdivide_x + 1) + x
    IN  <<base, base + 1, base + pl.subdivide_x + 2, base + pl.subdivide_x + 1>>

indexed_polygon_iter(pl) ==
    [k \in 1..indexed_polygon_count(pl) |-> indexed_polygon(pl, k - 1)]

\* Quad(x, y, z, w) -> Triangle(x, y, z), Triangle(x, z, w)
triangulate(polys) ==
    [k \in 1..(2 * Len(polys)) |->
        LET q == polys[(k + 1) \div 2]
        IN  IF k % 2 = 1 THEN <<q[1], q[2], q[3]>> ELSE <<q[1], q[3], q[4]>>]

\* flatten polygons of n corners into their corner sequence
vertices(polys, n) ==
    [k \in 1..(n * Len(polys)) |-> polys[((k - 1) \div n) + 1][((k - 1) % n) + 1]]

---------------------------------------------------------------------------
(* App::new, main.rs:76-133 *)

\* main.rs:95-103
vertex_data(pl, s) ==
    LET pts == shared_vertex_iter(pl)
    IN  [k \in 1..Len(pts) |->
            LET x == pts[k][1]
                y == pts[k][2]
                h == perlin2(s, <<x, y>>) * 32
            IN  [pos |-> <<[num |-> 25 * x.num, den |-> x.den],
                           [num |-> 25 * y.num, den |-> y.den],
                           h>>,
                 color |-> calculate_color(h)]]

\* main.rs:105-109 without .triangulate()
index_data_quads(pl) == vertices(indexed_polygon_iter(pl), 4)

\* main.rs:105-109 with .map(|i| i + 1)
index_data_one_based(pl) ==
    LET idx == vertices(triangulate(indexed_polygon_iter(pl)), 3)
    IN  [k \in 1..Len(idx) |-> idx[k] + 1]

\* main.rs:105-109 emitting the first triangle of each quad twice
index_data_half(pl) ==
    LET tris == triangulate(indexed_polygon_iter(pl))
    IN  vertices([k \in 1..Len(tris) |-> tris[IF k % 2 = 0 THEN k - 1 ELSE k]], 3)

\* main.rs:105-109
index_data(pl) == vertices(triangulate(indexed_polygon_iter(pl)), 3)

Identity == [kind |-> "identity"]

perspective(fovy, aspect, near, far) ==
    [kind |-> "perspective", fovy |-> fovy, aspect |-> aspect,
     near |-> near, far |-> far]

Pso == [vs |-> "terrain.glslv", ps |-> "terrain.glslf", cull |-> "Back",
        depth |-> "LESS_EQUAL_WRITE"]

\* main.rs:120-130; near = 0.1 is kept in tenths
NewData(pl, s, aspect) ==
    [vbuf |-> vertex_data(pl, s),
     locals |-> "locals",
     model |-> Identity,
     view |-> Identity,
     proj |-> perspective(60, aspect, 1, 10000),
     out_color |-> "color",
     out_depth |-> "depth"]

\* FactoryExt::create_vertex_buffer_with_slice, called at main.rs:111
create_vertex_buffer_with_slice(vd, id) ==
    [vbuf |-> vd, slice |-> [start |-> 0, end |-> Len(id), indices |-> id]]

---------------------------------------------------------------------------
(* App::render, main.rs:135-156 *)

Sin1000(k) == <<0, 707, 1000, 707, 0, -707, -1000, -707>>[(k % 8) + 1]

Cos1000(k) == Sin1000(k + 2)

look_at(eye, center, up) ==
    [kind |-> "look_at", eye |-> eye, center |-> center, up |-> up]

\* main.rs:137-143; eye in thousandths
render_view(time) ==
    LET x == Sin1000(time)
        y == Cos1000(time)
    IN  look_at(<<x * 32, y * 32, 16000>>, <<0, 0, 0>>, <<0, 0, 1>>)

\* main.rs:145 also overwriting proj
SetView_clobber_proj(d, time) ==
    [d EXCEPT !.view = render_view(time), !.proj = render_view(time)]

\* main.rs:145 left out
SetView_skipped(d, time) == d

\* main.rs:145
SetView(d, time) == [d EXCEPT !.view = render_view(time)]

\* main.rs:146-150
Locals(d) == [model |-> d.model, view |-> d.view, proj |-> d.proj]

Request(op, fr, ok, payload) ==
    [op |-> op, frame |-> fr, ok |-> ok, payload |-> payload]

\* main.rs:152, the request; ok is the backend's answer
update_buffer(d, fr, ok) ==
    Request("update_buffer", fr, ok, [buf |-> d.locals, data |-> Locals(d)])

\* main.rs:152 with the Result dropped
unwrap_ignored(ok) == FALSE

\* main.rs:152, .unwrap(): TRUE when it panics
unwrap_panics(ok) == ~ok

\* main.rs:153-155 with the draw issued first
requests_after_update_draw_first(d, sl, ps, fr) ==
    << Request("draw", fr, TRUE, [slice |-> sl, pso |-> ps, data |-> d]),
       Request("clear", fr, TRUE, [target |-> d.out_color, value |-> <<3, 3, 3, 10>>]),
       Request("clear_depth", fr, TRUE, [target |-> d.out_depth, value |-> 10]) >>

\* main.rs:153-155; colour and depth values in tenths
requests_after_update(d, sl, ps, fr) ==
    << Request("clear", fr, TRUE, [target |-> d.out_color, value |-> <<3, 3, 3, 10>>]),
       Request("clear_depth", fr, TRUE, [target |-> d.out_depth, value |-> 10]),
       Request("draw", fr, TRUE, [slice |-> sl, pso |-> ps, data |-> d]) >>

\* main.rs:135-156: the data and encoder after the call, and whether it panicked
render(d, sl, ps, enc, fr, time, ok) ==
    LET d1 == SetView(d, time)
        enc1 == Append(enc, update_buffer(d1, fr, ok))
    IN  IF unwrap_panics(ok)
        THEN [data |-> d1, encoder |-> enc1, panicked |-> TRUE]
        ELSE [data |-> d1,
              encoder |-> enc1 \o requests_after_update(d1, sl, ps, fr),
              panicked |-> FALSE]

---------------------------------------------------------------------------
(* The application: gfx_app calls App::new once, then App::render once per *)
(* frame.                                                                  *)

frame == Len(times)

now == IF times = <<>> THEN 0 ELSE times[Len(times)]

Init ==
    /\ phase = "start"
    /\ plane = None
    /\ seed = None
    /\ pso = None
    /\ data = None
    /\ slice = None
    /\ encoder = <<>>
    /\ times = <<>>
    /\ returned = 0

\* App::new returns the application
New ==
    /\ phase = "start"
    /\ \E w \in 1..MaxGrid, h \in 1..MaxGrid, s \in 0..MaxSeed, a \in AspectRatios :
        LET pl == Plane_subdivide(w, h)
            d == NewData(pl, s, a)
            m == create_vertex_buffer_with_slice(d.vbuf, index_data(pl))
        IN  /\ plane' = pl
            /\ seed' = s
            /\ pso' = Pso
            /\ data' = [d EXCEPT !.vbuf = m.vbuf]
            /\ slice' = m.slice
    /\ phase' = "running"
    /\ UNCHANGED <<encoder, times, returned>>

\* App::new panics at one of the .unwrap() of main.rs:114-119
NewPanics ==
    /\ phase = "start"
    /\ phase' = "aborted"
    /\ UNCHANGED <<plane, seed, pso, data, slice, encoder, times, returned>>

\* one call of App::render
Render ==
    /\ phase = "running"
    /\ frame < MaxFrames
    /\ \E time \in now..MaxClock, ok \in BOOLEAN :
        LET r == render(data, slice, pso, encoder, frame + 1, time, ok)
        IN  /\ times' = Append(times, time)
            /\ data' = r.data
            /\ encoder' = r.encoder
            /\ phase' = IF r.panicked THEN "panicked" ELSE "running"
            /\ returned' = IF r.panicked THEN returned ELSE returned + 1
    /\ UNCHANGED <<plane, seed, pso, slice>>

Next == New \/ NewPanics \/ Render

Spec == Init /\ [][Next]_vars

---------------------------------------------------------------------------
(* Properties *)

Built == phase \in {"running", "panicked"}

W == plane.subdivide_x

H == plane.subdivide_y

Indices == slice.indices

\* the k-th triangle of the index list, as the set of its vertex indices
Triangle(k) == {Indices[3 * k - 2], Indices[3 * k - 1], Indices[3 * k]}

NumTriangles == Len(Indices) \div 3

\* index of the vertex that the vertex list holds for lattice point (i, j)
VertexAt(i, j) ==
    CHOOSE k \in 0..(Len(data.vbuf) - 1) :
        /\ data.vbuf[k + 1].pos[1] = [num |-> 25 * i, den |-> W]
        /\ data.vbuf[k + 1].pos[2] = [num |-> 25 * j, den |-> H]

Corners(i, j) ==
    {VertexAt(i, j), VertexAt(i + 1, j), VertexAt(i, j + 1), VertexAt(i + 1, j + 1)}

Diagonals(i, j) ==
    { {VertexAt(i, j), VertexAt(i + 1, j + 1)},
      {VertexAt(i + 1, j), VertexAt(i, j + 1)} }

CellTriangles(i, j) ==
    LET cs == Corners(i, j)
    IN  {k \in 1..NumTriangles : Triangle(k) \subseteq cs}

\* C1: the mesh built by App::new for a W x H grid has (W+1)*(H+1)
\* vertices and 6*W*H indices.
C1_MeshSize ==
    Built =>
        /\ Len(data.vbuf) = (W + 1) * (H + 1)
        /\ Len(Indices) = 6 * W * H
        /\ slice.end - slice.start = 6 * W * H

C1_Witness ==
    /\ Built
    /\ W = 4 /\ H = 4
    /\ Len(data.vbuf) = 25
    /\ Len(Indices) = 96
    /\ NumTriangles = 32

\* C2: every index of the index list is at least 0 and below the vertex
\* count.
C2_IndicesInRange ==
    Built =>
        \A k \in 1..Len(Indices) :
            0 <= Indices[k] /\ Indices[k] < Len(data.vbuf)

C2_Witness ==
    /\ Built
    /\ W = 2 /\ H = 3
    /\ \E k \in 1..Len(Indices) : Indices[k] = Len(data.vbuf) - 1
    /\ \E k \in 1..Len(Indices) : Indices[k] = 0

Snow == <<9, 9, 9>>

Rock == <<7, 7, 7>>

Land == <<2, 7, 2>>

Water == <<2, 2, 7>>

HeightOf(v) == v.pos[3]

\* C3: every vertex is coloured by exactly the band of its height:
\* above 8.0 snow, in (0.0, 8.0] rock, in (-5.0, 0.0] land, at or below
\* -5.0 water; the boundaries 8.0, 0.0 and -5.0 take the lower band.
C3_ColorBands ==
    Built =>
        \A k \in 1..Len(data.vbuf) :
            LET h == HeightOf(data.vbuf[k])
                c == data.vbuf[k].color
            IN  /\ c \in {Snow, Rock, Land, Water}
                /\ (c = Snow) <=> (h > 8 * 64)
                /\ (c = Rock) <=> (0 < h /\ h <= 8 * 64)
                /\ (c = Land) <=> (-5 * 64 < h /\ h <= 0)
                /\ (c = Water) <=> (h <= -5 * 64)

C3_Witness ==
    /\ Built
    /\ \E k \in 1..Len(data.vbuf) :
        HeightOf(data.vbuf[k]) = 8 * 64 /\ data.vbuf[k].color = Rock
    /\ \E k \in 1..Len(data.vbuf) :
        HeightOf(data.vbuf[k]) = 0 /\ data.vbuf[k].color = Land
    /\ \E k \in 1..Len(data.vbuf) :
        HeightOf(data.vbuf[k]) = -5 * 64 /\ data.vbuf[k].color = Water
    /\ \E k \in 1..Len(data.vbuf) :
        HeightOf(data.vbuf[k]) > 8 * 64 /\ data.vbuf[k].color = Snow

\* the positions in the encoder of the requests of frame f, in order
FramePositions(f) == {k \in 1..Len(encoder) : encoder[k].frame = f}

FrameOps(f) ==
    LET ps == FramePositions(f)
        first == CHOOSE k \in ps : \A m \in ps : k <= m
    IN  [k \in 1..Cardinality(ps) |-> encoder[first + k - 1].op]

Contiguous(f) ==
    \A k \in FramePositions(f) : \A m \in FramePositions(f) :
        \A n \in k..m : n \in FramePositions(f)

Draws(f) == {k \in FramePositions(f) : encoder[k].op = "draw"}

UpdateOk(f) ==
    \E k \in FramePositions(f) : encoder[k].op = "update_buffer" /\ encoder[k].ok

\* C4 as stated: every frame issues update, clear (colour and depth),
\* draw in this order, exactly one draw, and frames do not interleave.
C4_Original ==
    \A f \in 1..frame :
        /\ Contiguous(f)
        /\ Cardinality(Draws(f)) = 1
        /\ FrameOps(f) = <<"update_buffer", "clear", "clear_depth", "draw">>

\* C4 (amended): frames do not interleave and every frame starts with its
\* uniform update; a frame whose uniform update succeeds issues exactly
\* update, clear, clear_depth, draw in this order with exactly one draw; a
\* frame whose uniform update fails issues no clear and no draw.
C4_FrameOrder ==
    \A f \in 1..frame :
        /\ Contiguous(f)
        /\ FramePositions(f) # {}
        /\ UpdateOk(f) =>
            /\ Cardinality(Draws(f)) = 1
            /\ FrameOps(f) = <<"update_buffer", "clear", "clear_depth", "draw">>
        /\ ~UpdateOk(f) => FrameOps(f) = <<"update_buffer">>

C4_Witness ==
    /\ frame = 2
    /\ UpdateOk(1) /\ UpdateOk(2)
    /\ Len(encoder) = 8

\* C5: a render call changes no member of the application state other
\* than view: model (identity), proj, vbuf, the other bindings, slice and
\* pso stay as App::new left them.
C5_OnlyViewChanges ==
    [][phase = "running" =>
        /\ \A fld \in (DOMAIN data) \ {"view"} : data'[fld] = data[fld]
        /\ data'.model = Identity
        /\ slice' = slice
        /\ pso' = pso]_vars

C5_Witness ==
    /\ frame = 2
    /\ returned = 2
    /\ data.view # Identity
    /\ data.model = Identity
    /\ data.proj.kind = "perspective"

\* C7: a failed uniform update is the last request of its frame and of
\* the encoder, the render call that issued it does not return normally,
\* and no render call follows it.
C7_FailureSurfaced ==
    \A k \in 1..Len(encoder) :
        (encoder[k].op = "update_buffer" /\ ~encoder[k].ok) =>
            /\ k = Len(encoder)
            /\ phase = "panicked"
            /\ encoder[k].frame = frame
            /\ returned = frame - 1

C7_Witness ==
    /\ frame = 2
    /\ returned = 1
    /\ phase = "panicked"
    /\ encoder[Len(encoder)].op = "update_buffer"
    /\ ~encoder[Len(encoder)].ok

\* the view of the orbit camera at time t: eye (32 sin t, 32 cos t, 16)
\* looking at the origin with up (0, 0, 1)
OrbitView(t) ==
    [kind |-> "look_at",
     eye |-> <<32 * Sin1000(t), 32 * Cos1000(t), 16000>>,
     center |-> <<0, 0, 0>>,
     up |-> <<0, 0, 1>>]

\* C9: every grid cell has exactly two triangles among its four corners
\* (looked up in the vertex list), the two share a diagonal and cover the
\* four corners; every vertex is referenced by a triangle.
C9_TwoTrianglesPerCell ==
    Built =>
        /\ Len(Indices) = 3 * NumTriangles
        /\ \A i \in 0..(W - 1) : \A j \in 0..(H - 1) :
            LET ts == CellTriangles(i, j)
            IN  /\ Cardinality(ts) = 2
                /\ \A k \in ts : Cardinality(Triangle(k)) = 3
                /\ UNION {Triangle(k) : k \in ts} = Corners(i, j)
                /\ \E dg \in Diagonals(i, j) : \A k \in ts : dg \subseteq Triangle(k)
        /\ \A v \in 0..(Len(data.vbuf) - 1) :
            \E k \in 1..NumTriangles : v \in Triangle(k)

C9_Witness ==
    /\ Built
    /\ W = 3 /\ H = 2
    /\ Cardinality(CellTriangles(2, 1)) = 2
    /\ Cardinality(Corners(2, 1)) = 4

\* C10: each frame sends exactly one uniform update, carrying model,
\* the orbit view of the time read in that frame, and proj; the draw of
\* the frame is issued with that same view.
C10_ViewOfThisFrame ==
    \A f \in 1..frame :
        /\ Cardinality({k \in FramePositions(f) : encoder[k].op = "update_buffer"}) = 1
        /\ \A k \in FramePositions(f) :
            /\ encoder[k].op = "update_buffer" =>
                encoder[k].payload.data =
                    [model |-> Identity, view |-> OrbitView(times[f]), proj |-> data.proj]
            /\ encoder[k].op = "draw" =>
                /\ encoder[k].payload.data.view = OrbitView(times[f])
                /\ encoder[k].payload.data.view # Identity
        /\ f = frame => data.view = OrbitView(times[f])

C10_Witness ==
    /\ frame = 2
    /\ returned = 2
    /\ times[1] # times[2]
    /\ encoder[4].op = "draw"
    /\ encoder[8].op = "draw"
    /\ encoder[4].payload.data.view # encoder[8].payload.data.view
    /\ encoder[8].payload.data.view = data.view

====
